---- MODULE Spec2Model ----
(***************************************************************************)
(* State-machine model of packgen's Blender script, src/packgen/blend.py:  *)
(* parameter loading, the composition arithmetic of num_B_particles, the   *)
(* species draw decide_cube, the grid placement loop of main and the       *)
(* bake/export sequence of bake_and_export.                                *)
(*                                                                         *)
(* Python floats are modelled as exact rationals <<n, d>> with d > 0, kept *)
(* in lowest terms.  The random source is modelled as a nondeterministic   *)
(* choice of each drawn value; every draw is recorded in drawLog.          *)
(***************************************************************************)
EXTENDS Integers, Sequences, FiniteSets, TLC

\* ------------------------------------------------------------------ bounds

\* Largest num_cubes_x and num_cubes_z of the full runs.
MaxCubes == 2
\* Largest num_cubes_y of the full runs.
MaxCubesY == 3
\* Largest denominator of the mass fractions of the composition runs.
XDen == 4
\* Largest denominator of the uniform draws and of the stand-alone boundaries.
UDen == 4
\* Largest density, radius and thickness of the composition runs.
MaxScalar == 2
\* Largest num_cubes_x of the composition runs (num_cubes_y, num_cubes_z in 1..2).
MaxWide == 5
\* Longest probability vector handed to decide_cube in the stand-alone calls.
MaxSpecies == 3

\* ------------------------------------------------------- program constants

\* The index convention of main: species B is index 1 (A is 0).
I_B == 1
\* end_frame handed to bake_and_export by main.
EndFrame == 230

\* Python's None; numbers that may be None are never compared with it by value.
None == << >>
\* No exception has been raised.
NoError == "none"

\* ---------------------------------------------------------------- rationals

RECURSIVE GCD(_, _)
GCD(a, b) == IF b = 0 THEN a ELSE GCD(b, a % b)

Abs(n) == IF n < 0 THEN -n ELSE n

\* The rational n/d (d # 0) in lowest terms with a positive denominator.
Norm(n, d) ==
    LET g == GCD(Abs(n), Abs(d))
        s == IF d < 0 THEN -1 ELSE 1
    IN  <<(s * n) \div g, (s * d) \div g>>

R(n) == <<n, 1>>
RAdd(p, q) == Norm(p[1] * q[2] + q[1] * p[2], p[2] * q[2])
RSub(p, q) == Norm(p[1] * q[2] - q[1] * p[2], p[2] * q[2])
RMul(p, q) == Norm(p[1] * q[1], p[2] * q[2])
\* Only applied where q # 0; the callers model the zero case as a raise.
RDiv(p, q) == Norm(p[1] * q[2], p[2] * q[1])
RLt(p, q) == p[1] * q[2] < q[1] * p[2]
RLe(p, q) == p[1] * q[2] <= q[1] * p[2]
RGt(p, q) == RLt(q, p)
RIsZero(p) == p[1] = 0

\* math.ceil of a rational.
Ceil(p) == -((-p[1]) \div p[2])
\* math.floor of a rational.
Floor(p) == p[1] \div p[2]

\* -------------------------------------------------------------- volume_prism

\* np.sin(2 * np.pi / sides), to three decimals, for the side counts modelled.
Sin2PiOver(sides) ==
    CASE sides = 3 -> <<866, 1000>>
      [] sides = 4 -> <<1, 1>>
      [] sides = 5 -> <<951, 1000>>
      [] sides = 6 -> <<866, 1000>>

\* 1 / 2 * sides * np.square(radius) * np.sin(2 * np.pi / sides) * height
volume_prism(sides, radius, height) ==
    RMul(RMul(RMul(RMul(<<1, 2>>, R(sides)), RMul(radius, radius)),
              Sin2PiOver(sides)), height)

\* ------------------------------------------------------------ num_B_particles

\* beta = rho_B * V_B / (rho_A * V_A)
Beta(parameters) ==
    LET n_sides == parameters.num_sides
        V_B == volume_prism(n_sides, R(parameters.r_B), R(parameters.thickness_B))
        V_A == volume_prism(n_sides, R(parameters.r_A), R(parameters.thickness_A))
    IN  RDiv(RMul(R(parameters.density_B), V_B), RMul(R(parameters.density_A), V_A))

\* x_B / (1 - x_B) raises ZeroDivisionError when 1 - x_B is zero; nothing else in
\* num_B_particles raises for positive densities, radii and thicknesses.
num_B_particles_raises(parameters) ==
    RIsZero(RSub(R(1), parameters.mass_fraction_B))

\* alpha = 1 / beta * (x_B / (1 - x_B))
Alpha(parameters) ==
    LET x_B == parameters.mass_fraction_B
    IN  RMul(RDiv(R(1), Beta(parameters)), RDiv(x_B, RSub(R(1), x_B)))

\* Faulty variant of num_B_particles: the count is rounded down instead of up.
num_B_particles_floor(parameters, num_particles_total) ==
    LET alpha == Alpha(parameters)
        N_B == RMul(RDiv(alpha, RAdd(R(1), alpha)), R(num_particles_total))
    IN  Floor(N_B)

\* N_B = alpha / (1 + alpha) * num_particles_total; return math.ceil(N_B)
num_B_particles(parameters, num_particles_total) ==
    LET alpha == Alpha(parameters)
        N_B == RMul(RDiv(alpha, RAdd(R(1), alpha)), R(num_particles_total))
    IN  Ceil(N_B)

\* ------------------------------------- main: probability vector (lines 224-248)

NumCubesTotal(parameters) ==
    parameters.num_cubes_x * parameters.num_cubes_y * parameters.num_cubes_z

\* number_fraction_B = num_cubes_B / num_cubes_total;
\* number_fractions = [1.0 - number_fraction_B, number_fraction_B]
InitialFractions(n_B, num_cubes_total) ==
    LET number_fraction_B == Norm(n_B, num_cubes_total)
    IN  <<RSub(R(1), number_fraction_B), number_fraction_B>>

\* sum(number_fractions), left to right.
RECURSIVE SumTo(_, _)
SumTo(v, i) == IF i = 0 THEN R(0) ELSE RAdd(SumTo(v, i - 1), v[i])

\* for i: number_fractions[i] = number_fractions[i] / the_sum
NormalizeFractions(v) ==
    LET the_sum == SumTo(v, Len(v))
    IN  [i \in DOMAIN v |-> RDiv(v[i], the_sum)]

\* Faulty variant of CumulativeSums: the running sum is not carried over.
CumulativeSums_nocarry(v) == v

\* cum_sum = cum_sum + number_fractions[i]; cum_sums[i] = cum_sum
CumulativeSums(v) == [i \in DOMAIN v |-> SumTo(v, i)]

\* ---------------------------------------------------------------- decide_cube

\* The loop of decide_cube from index i (0-based) on, LastI being its value so far.
RECURSIVE ScanFrom(_, _, _, _, _)
ScanFrom(i, LastI, u, number_fractions, cum_sums) ==
    IF i >= Len(number_fractions) THEN LastI
    ELSE ScanFrom(i + 1,
                  IF RGt(u, cum_sums[i + 1]) THEN i ELSE LastI,
                  u, number_fractions, cum_sums)

\* Faulty variant of the scan: the comparison is >= instead of >.
RECURSIVE ScanFromGe(_, _, _, _, _)
ScanFromGe(i, LastI, u, number_fractions, cum_sums) ==
    IF i >= Len(number_fractions) THEN LastI
    ELSE ScanFromGe(i + 1,
                    IF RLe(cum_sums[i + 1], u) THEN i ELSE LastI,
                    u, number_fractions, cum_sums)

decide_cube_ge(u, n_B, n_A, number_fractions, cum_sums) ==
    ScanFromGe(0, -1, u, number_fractions, cum_sums) + 1

\* decide_cube with ThisRandomNumber = u: LastI = -1; the scan; return LastI + 1.
decide_cube(u, n_B, n_A, number_fractions, cum_sums) ==
    ScanFrom(0, -1, u, number_fractions, cum_sums) + 1

\* All fractions k/d with 0 <= k <= d <= den, in lowest terms.
Fractions(den) == {q \in {Norm(k, d) : k \in 0 .. den, d \in 1 .. den} : RLe(q, R(1))}

\* The values random.uniform(0.0, 1.0) is drawn from: 0 <= u < 1.
UniformDraws == {q \in Fractions(UDen) : RLt(q, R(1))}

\* ------------------------------------------------------------ main: the grid

\* The loop nest of main, for x: for y: for z: the cell after (x, y, z), or None
\* once the last cell has been processed.  (NextCell_xinner is the faulty
\* variant that nests the loops the other way round, x innermost.)
NextCell_xinner(x, y, z, parameters) ==
    IF x + 1 < parameters.num_cubes_x THEN <<x + 1, y, z>>
    ELSE IF y + 1 < parameters.num_cubes_y THEN <<0, y + 1, z>>
    ELSE IF z + 1 < parameters.num_cubes_z THEN <<0, 0, z + 1>>
    ELSE None

NextCell(x, y, z, parameters) ==
    IF z + 1 < parameters.num_cubes_z THEN <<x, y, z + 1>>
    ELSE IF y + 1 < parameters.num_cubes_y THEN <<x, y + 1, 0>>
    ELSE IF x + 1 < parameters.num_cubes_x THEN <<x + 1, 0, 0>>
    ELSE None

\* if LastI == I_B: n_generated_cubes_B += 1 else: n_generated_cubed_A += 1
\* The pair <<n_generated_cubes_B, n_generated_cubed_A>> after the update.
\* (UpdateCounts_skipA is the faulty variant that loses the else branch.)
UpdateCounts_skipA(lastI, n_B, n_A) ==
    IF lastI = I_B THEN <<n_B + 1, n_A>> ELSE <<n_B, n_A>>

UpdateCounts(lastI, n_B, n_A) ==
    IF lastI = I_B THEN <<n_B + 1, n_A>> ELSE <<n_B, n_A + 1>>

\* location=((x - num_cubes_x / 2 + 0.5) * distance,
\*           (y - num_cubes_y / 2 + 0.5) * distance, z0 + z * distance)
SlotLocation(x, y, z, parameters) ==
    LET distance == R(parameters.distance)
        z0 == RDiv(distance, R(2))
        half == <<1, 2>>
    IN  << RMul(RAdd(RSub(R(x), RDiv(R(parameters.num_cubes_x), R(2))), half), distance),
           RMul(RAdd(RSub(R(y), RDiv(R(parameters.num_cubes_y), R(2))), half), distance),
           RAdd(z0, RMul(R(z), distance)) >>

\* The arguments main hands to create_container_without_top_face.
ContainerSide(parameters) == RMul(R(parameters.num_cubes_x), R(parameters.distance))
ContainerHeight(parameters) == RMul(R(parameters.num_cubes_z), R(parameters.distance))
\* thickness = -0.2
ContainerThickness == <<-1, 5>>

\* create_container_without_top_face: a cube of edge `side` centred at
\* (0, 0, height/2) and scaled by height/side along z, open at the top.
create_container_without_top_face(side, height, thickness) ==
    [ size |-> side,
      location |-> <<R(0), R(0), RDiv(height, R(2))>>,
      scale |-> <<R(1), R(1), RDiv(height, side)>>,
      thickness |-> thickness,
      rigid_body |-> "PASSIVE",
      name |-> "Cube" ]

\* ------------------------------------------------------------ load_parameters

\* Faulty variant: "if not params.get('seed')", which also replaces a seed of 0.
MaterializeSeed_falsy(seed, generated) ==
    IF seed = None \/ seed = R(0) THEN generated ELSE seed

\* if params.get("seed") is None: params["seed"] = random.random() * 1e6
MaterializeSeed(seed, generated) == IF seed = None THEN generated ELSE seed

\* ---------------------------------------------------------------- the inputs

\* Seeds a parameters file may hold (null, or a number), and the values
\* random.random() * 1e6 is drawn from when it holds null.
SeedsInFile == {None, R(0), R(7)}
GeneratedSeeds == {R(5)}
\* The mass fractions of the full runs.
RunMassFractions == {R(0), <<1, 4>>, <<1, 2>>, R(1)}

ParametersFiles(grids, scalars, thicks_B, sides, fractions, dists, seeds, quits) ==
    { [ seed |-> sd, scale |-> 1,
        r_A |-> rA, r_B |-> rB, thickness_A |-> 1, thickness_B |-> hB,
        density_A |-> dA, density_B |-> dB, num_sides |-> ns,
        mass_fraction_B |-> xB,
        num_cubes_x |-> g[1], num_cubes_y |-> g[2], num_cubes_z |-> g[3],
        distance |-> dist, quit_on_finish |-> q ] :
      sd \in seeds, rA \in scalars, rB \in scalars, hB \in thicks_B,
      dA \in scalars, dB \in scalars, ns \in sides, xB \in fractions,
      g \in grids, dist \in dists, q \in quits }

\* The parameter files of the full runs.
RunFiles ==
    ParametersFiles((1 .. MaxCubes) \X (1 .. MaxCubesY) \X (1 .. MaxCubes),
                    {1}, {2}, {6}, RunMassFractions, {2}, SeedsInFile, BOOLEAN)

\* The parameter files of the composition runs: wider geometry, larger totals.
CompositionFiles ==
    ParametersFiles((1 .. MaxWide) \X (1 .. 2) \X (1 .. 2),
                    1 .. MaxScalar, {1, 3}, {3, 4, 6}, Fractions(XDen), {1}, {R(0)},
                    {FALSE})

\* ------------------------------------------------------------------ the state

VARIABLES
    pc,                   \* the statement the script is at
    paramsFile,           \* the JSON contents of the parameters file
    PARAMETERS,           \* the module-level PARAMETERS dict (None before the load)
    err,                  \* the exception that ended the run, or NoError
    rngSeed,              \* the value random.seed was last called with, or None
    seedCalls,            \* how many times random.seed has been called
    drawLog,              \* every draw from the random source, in order
    num_cubes_B,          \* main's num_cubes_B, or None
    number_fractions,     \* main's number_fractions
    cum_sums,             \* main's cum_sums
    x, y, z,              \* the loop indices of main
    n_generated_cubes_B,
    n_generated_cubed_A,
    LastI,                \* the species index decide_cube returned last
    ThisRandomNumber,     \* decide_cube's draw, while the call is observed
    cube,                 \* bpy.context.active_object inside the loop
    meshLocations,        \* the locations of the cylinders created so far
    nActive,              \* the number of bodies given ACTIVE rigid-body physics
    priorMeshes,          \* mesh objects in the scene that the script did not create
    rigidbody_world,      \* scene.rigidbody_world exists
    container,            \* main's container object, or None
    containerInScene,     \* container.name in bpy.data.objects
    frame,                \* <<scene.frame_end, current frame>>
    cacheLog,             \* the ptcache operators run, with the bodies they saw
    artifacts,            \* the files written, in order
    hostQuit              \* bpy.ops.wm.quit_blender() has been called

vars == << pc, paramsFile, PARAMETERS, err, rngSeed, seedCalls, drawLog, num_cubes_B,
           number_fractions, cum_sums, x, y, z, n_generated_cubes_B,
           n_generated_cubed_A, LastI, ThisRandomNumber, cube, meshLocations, nActive,
           priorMeshes, rigidbody_world, container, containerInScene, frame, cacheLog,
           artifacts, hostQuit >>

rngVars == << rngSeed, seedCalls, drawLog >>
compVars == << num_cubes_B, number_fractions, cum_sums >>
loopVars == << x, y, z, n_generated_cubes_B, n_generated_cubed_A, LastI,
               ThisRandomNumber, cube >>
sceneVars == << meshLocations, nActive, priorMeshes, rigidbody_world, container,
                containerInScene >>
exportVars == << frame, cacheLog, artifacts, hostQuit >>

\* Everything but pc, paramsFile, number_fractions and cum_sums, before the script
\* has run a statement.
Untouched ==
    /\ PARAMETERS = None
    /\ err = NoError
    /\ rngSeed = None /\ seedCalls = 0 /\ drawLog = << >>
    /\ num_cubes_B = None
    /\ x = 0 /\ y = 0 /\ z = 0
    /\ n_generated_cubes_B = 0 /\ n_generated_cubed_A = 0
    /\ LastI = None /\ ThisRandomNumber = None /\ cube = None
    /\ meshLocations = {} /\ nActive = 0
    /\ container = None /\ containerInScene = FALSE
    /\ frame = <<None, 1>>
    /\ cacheLog = << >> /\ artifacts = << >> /\ hostQuit = FALSE

\* The state when Blender starts running the script on one of `files`, in one of
\* two scenes: an empty one without a rigid-body world, or one that holds a mesh
\* and a rigid-body world already.
InitWith(files) ==
    /\ pc = "import"
    /\ paramsFile \in files
    /\ number_fractions = << >> /\ cum_sums = << >>
    /\ priorMeshes \in {0, 1}
    /\ rigidbody_world = (priorMeshes = 1)
    /\ Untouched

Init == InitWith(RunFiles)

\* ------------------------------------------------- load_parameters (53-60)

\* PARAMETERS = load_parameters(get_parameters_file()), at import: the seed is
\* kept, or drawn from the still unseeded random source when the file holds null.
LoadParameters ==
    /\ pc = "import"
    /\ \E generated \in GeneratedSeeds :
         /\ PARAMETERS' = [paramsFile EXCEPT !.seed = MaterializeSeed(@, generated)]
         /\ drawLog' = IF paramsFile.seed = None
                       THEN Append(drawLog, [kind |-> "load", cell |-> None])
                       ELSE drawLog
    /\ pc' = "main"
    /\ UNCHANGED << paramsFile, err, rngSeed, seedCalls, compVars, loopVars, sceneVars,
                    exportVars >>

\* --------------------------------------------------------------- main (213-315)

\* Lines 213-235: the totals and num_B_particles, which may raise.
MainSetup ==
    /\ pc = "main"
    /\ IF num_B_particles_raises(PARAMETERS)
       THEN /\ err' = "ZeroDivisionError"
            /\ pc' = "raised"
            /\ UNCHANGED compVars
       ELSE /\ num_cubes_B' = num_B_particles(PARAMETERS, NumCubesTotal(PARAMETERS))
            /\ number_fractions' = InitialFractions(num_cubes_B', NumCubesTotal(PARAMETERS))
            /\ cum_sums' = <<R(0), R(0)>>
            /\ pc' = "seed"
            /\ UNCHANGED err
    /\ UNCHANGED << paramsFile, PARAMETERS, rngVars, loopVars, sceneVars, exportVars >>

\* Line 237: random.seed(seed), seed being PARAMETERS["seed"] (line 228).
SeedRandom ==
    /\ pc = "seed"
    /\ rngSeed' = PARAMETERS.seed
    /\ seedCalls' = seedCalls + 1
    /\ pc' = "normalize"
    /\ UNCHANGED << paramsFile, PARAMETERS, err, drawLog, compVars, loopVars, sceneVars,
                    exportVars >>

\* Lines 238-248: normalize number_fractions, then fill cum_sums.
NormalizeStep ==
    /\ pc = "normalize"
    /\ number_fractions' = NormalizeFractions(number_fractions)
    /\ cum_sums' = CumulativeSums(number_fractions')
    /\ pc' = "delete_meshes"
    /\ UNCHANGED << paramsFile, PARAMETERS, err, rngVars, num_cubes_B, loopVars,
                    sceneVars, exportVars >>

\* Lines 250-258: delete every mesh object, zero the counters, enter the loop.
DeleteMeshes ==
    /\ pc = "delete_meshes"
    /\ priorMeshes' = 0
    /\ meshLocations' = {}
    /\ n_generated_cubes_B' = 0
    /\ n_generated_cubed_A' = 0
    /\ x' = 0 /\ y' = 0 /\ z' = 0
    /\ pc' = "decide"
    /\ UNCHANGED << paramsFile, PARAMETERS, err, rngVars, compVars, LastI,
                    ThisRandomNumber, cube, nActive, rigidbody_world, container,
                    containerInScene, exportVars >>

\* Lines 261-268: one decide_cube call for the cell (x, y, z), then the counters.
DecideSlot ==
    /\ pc = "decide"
    /\ \E u \in UniformDraws :
         LET lastI == decide_cube(u, n_generated_cubes_B, n_generated_cubed_A,
                                  number_fractions, cum_sums)
             counts == UpdateCounts(lastI, n_generated_cubes_B, n_generated_cubed_A)
         IN  /\ LastI' = lastI
             /\ n_generated_cubes_B' = counts[1]
             /\ n_generated_cubed_A' = counts[2]
    /\ drawLog' = Append(drawLog, [kind |-> "species", cell |-> <<x, y, z>>])
    /\ pc' = "add_cylinder"
    /\ UNCHANGED << paramsFile, PARAMETERS, err, rngSeed, seedCalls, compVars, x, y, z,
                    ThisRandomNumber, cube, sceneVars, exportVars >>

\* Lines 218-219: radii and heights, indexed by species (0-based in the code).
Radii(parameters) == <<parameters.r_A, parameters.r_B>>
Heights(parameters) == <<parameters.thickness_A, parameters.thickness_B>>

\* Lines 270-283: primitive_cylinder_add at the cell's location; cube is the new
\* active object.
AddCylinder ==
    /\ pc = "add_cylinder"
    /\ cube' = [ radius |-> PARAMETERS.scale * Radii(PARAMETERS)[LastI + 1],
                 depth |-> PARAMETERS.scale * Heights(PARAMETERS)[LastI + 1],
                 location |-> SlotLocation(x, y, z, PARAMETERS),
                 rotated |-> FALSE,
                 rigid_body |-> None ]
    /\ meshLocations' = meshLocations \cup {SlotLocation(x, y, z, PARAMETERS)}
    /\ pc' = "rotate"
    /\ UNCHANGED << paramsFile, PARAMETERS, err, rngVars, compVars, x, y, z,
                    n_generated_cubes_B, n_generated_cubed_A, LastI, ThisRandomNumber,
                    nActive, priorMeshes, rigidbody_world, container, containerInScene,
                    exportVars >>

\* Lines 286-290: three random.uniform(0, 6.283185) draws for rotation_euler.
RotateCube ==
    /\ pc = "rotate"
    /\ cube' = [cube EXCEPT !.rotated = TRUE]
    /\ drawLog' = drawLog \o << [kind |-> "rotation", cell |-> <<x, y, z>>],
                                [kind |-> "rotation", cell |-> <<x, y, z>>],
                                [kind |-> "rotation", cell |-> <<x, y, z>>] >>
    /\ pc' = "rigid_body"
    /\ UNCHANGED << paramsFile, PARAMETERS, err, rngSeed, seedCalls, compVars, x, y, z,
                    n_generated_cubes_B, n_generated_cubed_A, LastI, ThisRandomNumber,
                    sceneVars, exportVars >>

\* Faulty variant of AddRigidBody: bake_and_export is called straight after the loop,
\* before the container is created.
AddRigidBody_bakeFirst ==
    /\ pc = "rigid_body"
    /\ cube' = [cube EXCEPT !.rigid_body = "ACTIVE"]
    /\ nActive' = nActive + 1
    /\ rigidbody_world' = TRUE
    /\ LET next == NextCell(x, y, z, PARAMETERS)
       IN  IF next = None
           THEN /\ pc' = "frame_range"
                /\ UNCHANGED << x, y, z >>
           ELSE /\ pc' = "decide"
                /\ x' = next[1] /\ y' = next[2] /\ z' = next[3]
    /\ UNCHANGED << paramsFile, PARAMETERS, err, rngVars, compVars,
                    n_generated_cubes_B, n_generated_cubed_A, LastI, ThisRandomNumber,
                    meshLocations, priorMeshes, container, containerInScene, exportVars >>

\* Lines 293-306 and the loop headers 258-260: the cube becomes an ACTIVE rigid
\* body (which creates the rigid-body world if there is none) and gets its
\* material; then the next cell, or line 308 after the last one.
AddRigidBody ==
    /\ pc = "rigid_body"
    /\ cube' = [cube EXCEPT !.rigid_body = "ACTIVE"]
    /\ nActive' = nActive + 1
    /\ rigidbody_world' = TRUE
    /\ LET next == NextCell(x, y, z, PARAMETERS)
       IN  IF next = None
           THEN /\ pc' = "container"
                /\ UNCHANGED << x, y, z >>
           ELSE /\ pc' = "decide"
                /\ x' = next[1] /\ y' = next[2] /\ z' = next[3]
    /\ UNCHANGED << paramsFile, PARAMETERS, err, rngVars, compVars,
                    n_generated_cubes_B, n_generated_cubed_A, LastI, ThisRandomNumber,
                    meshLocations, priorMeshes, container, containerInScene, exportVars >>

\* Lines 308-313: the container, a PASSIVE rigid body named "Container".
CreateContainer ==
    /\ pc = "container"
    /\ container' = [ create_container_without_top_face(
                          ContainerSide(PARAMETERS), ContainerHeight(PARAMETERS),
                          ContainerThickness)
                      EXCEPT !.name = "Container" ]
    /\ containerInScene' = TRUE
    /\ rigidbody_world' = TRUE
    /\ pc' = "frame_range"
    /\ UNCHANGED << paramsFile, PARAMETERS, err, rngVars, compVars, loopVars,
                    meshLocations, nActive, priorMeshes, exportVars >>

\* ---------------------------------------------------- bake_and_export (166-195)

\* Lines 166-169: scene.frame_start = 1; scene.frame_end = end_frame.
SetFrameRange ==
    /\ pc = "frame_range"
    /\ frame' = <<EndFrame, frame[2]>>
    /\ pc' = "bake"
    /\ UNCHANGED << paramsFile, PARAMETERS, err, rngVars, compVars, loopVars, sceneVars,
                    cacheLog, artifacts, hostQuit >>

\* What a ptcache operator or a file sees of the scene.
SceneSeen == [ bodies |-> nActive, container |-> containerInScene ]

\* Lines 172-174: if scene.rigidbody_world: free_bake_all(); bake_all().
BakeCaches ==
    /\ pc = "bake"
    /\ cacheLog' = IF rigidbody_world
                   THEN cacheLog \o << [op |-> "free_bake_all", scene |-> SceneSeen],
                                       [op |-> "bake_all", scene |-> SceneSeen] >>
                   ELSE cacheLog
    /\ pc' = "frame_set"
    /\ UNCHANGED << paramsFile, PARAMETERS, err, rngVars, compVars, loopVars, sceneVars,
                    frame, artifacts, hostQuit >>

\* Line 177: scene.frame_set(end_frame).
FrameSet ==
    /\ pc = "frame_set"
    /\ frame' = <<frame[1], EndFrame>>
    /\ pc' = "save_mainfile"
    /\ UNCHANGED << paramsFile, PARAMETERS, err, rngVars, compVars, loopVars, sceneVars,
                    cacheLog, artifacts, hostQuit >>

\* Line 179: bpy.ops.wm.save_mainfile, the scene snapshot.
SaveMainfile ==
    /\ pc = "save_mainfile"
    /\ artifacts' = Append(artifacts, [kind |-> "blender", content |-> SceneSeen,
                                       frame |-> frame[2], baked |-> Len(cacheLog)])
    /\ pc' = "dump_parameters"
    /\ UNCHANGED << paramsFile, PARAMETERS, err, rngVars, compVars, loopVars, sceneVars,
                    frame, cacheLog, hostQuit >>

\* Lines 181-183: json.dump(PARAMETERS, f), the parameters sidecar.
DumpParameters ==
    /\ pc = "dump_parameters"
    /\ artifacts' = Append(artifacts, [kind |-> "json", content |-> PARAMETERS,
                                       frame |-> frame[2], baked |-> Len(cacheLog)])
    /\ pc' = "remove_container"
    /\ UNCHANGED << paramsFile, PARAMETERS, err, rngVars, compVars, loopVars, sceneVars,
                    frame, cacheLog, hostQuit >>

\* Faulty variant of RemoveContainer: the container is looked up and left in place.
RemoveContainer_keep ==
    /\ pc = "remove_container"
    /\ pc' = "stl_export"
    /\ UNCHANGED << paramsFile, PARAMETERS, err, rngVars, compVars, loopVars, sceneVars,
                    exportVars >>

\* Lines 185-188: if container and container.name in bpy.data.objects: remove it.
RemoveContainer ==
    /\ pc = "remove_container"
    /\ containerInScene' = IF container # None /\ containerInScene
                           THEN FALSE ELSE containerInScene
    /\ pc' = "stl_export"
    /\ UNCHANGED << paramsFile, PARAMETERS, err, rngVars, compVars, loopVars,
                    meshLocations, nActive, priorMeshes, rigidbody_world, container,
                    exportVars >>

\* Lines 190-192: bpy.ops.wm.stl_export, the mesh export.
StlExport ==
    /\ pc = "stl_export"
    /\ artifacts' = Append(artifacts, [kind |-> "stl", content |-> SceneSeen,
                                       frame |-> frame[2], baked |-> Len(cacheLog)])
    /\ pc' = "quit_on_finish"
    /\ UNCHANGED << paramsFile, PARAMETERS, err, rngVars, compVars, loopVars, sceneVars,
                    frame, cacheLog, hostQuit >>

\* Lines 194-195: if PARAMETERS.get("quit_on_finish", False): quit_blender().
QuitOnFinish ==
    /\ pc = "quit_on_finish"
    /\ hostQuit' = PARAMETERS.quit_on_finish
    /\ pc' = "done"
    /\ UNCHANGED << paramsFile, PARAMETERS, err, rngVars, compVars, loopVars, sceneVars,
                    frame, cacheLog, artifacts >>

Next ==
    \/ LoadParameters
    \/ MainSetup
    \/ SeedRandom
    \/ NormalizeStep
    \/ DeleteMeshes
    \/ DecideSlot
    \/ AddCylinder
    \/ RotateCube
    \/ AddRigidBody
    \/ CreateContainer
    \/ SetFrameRange
    \/ BakeCaches
    \/ FrameSet
    \/ SaveMainfile
    \/ DumpParameters
    \/ RemoveContainer
    \/ StlExport
    \/ QuitOnFinish

\* A full run of the script on one of RunFiles.
Spec == Init /\ [][Next]_vars

\* ------------------------------------------------------- the composition runs

InitComposition == InitWith(CompositionFiles)

NextComposition ==
    \/ LoadParameters
    \/ MainSetup
    \/ SeedRandom
    \/ NormalizeStep

\* The script up to line 248, on one of CompositionFiles.
SpecComposition == InitComposition /\ [][NextComposition]_vars

\* ------------------------------------------------- stand-alone decide_cube calls

\* The vectors of length 1 .. MaxSpecies over the boundaries k/d, d <= UDen.
BoundaryVectors ==
    UNION { [1 .. n -> Fractions(UDen)] : n \in 1 .. MaxSpecies }

\* The probability vector some cum_sums is the running sum of.
Differences(cs) ==
    [i \in DOMAIN cs |-> IF i = 1 THEN cs[1] ELSE RSub(cs[i], cs[i - 1])]

InitDecide ==
    /\ pc = "decide_cube"
    /\ paramsFile = None
    /\ cum_sums \in BoundaryVectors
    /\ number_fractions = Differences(cum_sums)
    /\ priorMeshes = 0
    /\ rigidbody_world = FALSE
    /\ Untouched

\* One call of decide_cube (lines 198-208) on number_fractions and cum_sums.
CallDecideCube ==
    /\ pc = "decide_cube"
    /\ \E u \in UniformDraws :
         /\ ThisRandomNumber' = u
         /\ LastI' = decide_cube(u, n_generated_cubes_B, n_generated_cubed_A,
                                 number_fractions, cum_sums)
    /\ drawLog' = Append(drawLog, [kind |-> "species", cell |-> None])
    /\ pc' = "returned"
    /\ UNCHANGED << paramsFile, PARAMETERS, err, rngSeed, seedCalls, compVars, x, y, z,
                    n_generated_cubes_B, n_generated_cubed_A, cube, sceneVars,
                    exportVars >>

NextDecide == CallDecideCube

SpecDecide == InitDecide /\ [][NextDecide]_vars

\* ===================================================================== claims

\* The draws made after import, i.e. all but the one that materializes a seed.
RunDraws == SelectSeq(drawLog, LAMBDA e : e.kind # "load")
SpeciesDraws == SelectSeq(drawLog, LAMBDA e : e.kind = "species")
LoadDraws == SelectSeq(drawLog, LAMBDA e : e.kind = "load")

\* (x * num_cubes_y + y) * num_cubes_z + z
CellIndex(c, parameters) ==
    (c[1] * parameters.num_cubes_y + c[2]) * parameters.num_cubes_z + c[3]

InGrid(c, parameters) ==
    /\ 0 <= c[1] /\ c[1] < parameters.num_cubes_x
    /\ 0 <= c[2] /\ c[2] < parameters.num_cubes_y
    /\ 0 <= c[3] /\ c[3] < parameters.num_cubes_z

\* The statements of main after the placement loop, and of bake_and_export.
AfterLoop == { "container", "frame_range", "bake", "frame_set", "save_mainfile",
               "dump_parameters", "remove_container", "stl_export", "quit_on_finish",
               "done" }
InLoop == { "decide", "add_cylinder", "rotate", "rigid_body" }

SetMax(S) == CHOOSE m \in S : \A n \in S : n <= m

\* The 0-based indices i with u > cum_sums[i].
Exceeded(u, cs) == {i \in 0 .. Len(cs) - 1 : RGt(u, cs[i + 1])}
NonDecreasing(cs) == \A i \in 1 .. Len(cs) - 1 : RLe(cs[i], cs[i + 1])
Increasing(cs) == \A i \in 1 .. Len(cs) - 1 : RLt(cs[i], cs[i + 1])

\* ------------------------------------------------------------------------ C1

\* C1, as stated: whenever decide_cube has returned, a draw exactly equal to a
\* cumulative boundary cum_sums[i] has been given the next species, i + 1, and a
\* draw that exceeds no boundary has been given species 0.
C1_BoundaryGoesToNextSpecies ==
    pc = "returned" =>
        /\ \A i \in 0 .. Len(cum_sums) - 1 :
               ThisRandomNumber = cum_sums[i + 1] => LastI = i + 1
        /\ Exceeded(ThisRandomNumber, cum_sums) = {} => LastI = 0

\* C1, amended: decide_cube returns (the last i with u > cum_sums[i]) + 1, and 0
\* when u exceeds no boundary; so a draw exactly equal to a boundary cum_sums[i]
\* does not pass it: with non-decreasing cum_sums it gets a species of index at
\* most i, and with increasing cum_sums species i itself, never i + 1.
C1_LastExceededPlusOne ==
    pc = "returned" =>
        LET u == ThisRandomNumber
            above == Exceeded(u, cum_sums)
        IN  /\ LastI = IF above = {} THEN 0 ELSE SetMax(above) + 1
            /\ \A i \in 0 .. Len(cum_sums) - 1 :
                   u = cum_sums[i + 1] =>
                       /\ NonDecreasing(cum_sums) => LastI <= i
                       /\ Increasing(cum_sums) => LastI = i

\* A draw that sits exactly on the second boundary of an increasing cum_sums,
\* and has been given species 1.
C1_Witness ==
    /\ pc = "returned"
    /\ Len(cum_sums) >= 2
    /\ Increasing(cum_sums)
    /\ ThisRandomNumber = cum_sums[2]
    /\ LastI = 1

\* ------------------------------------------------------------------------ C2

\* C2, as stated: a run whose mass_fraction_B is exactly 0 or exactly 1 never gets
\* past composition setup: it is still loading or in setup, or has raised there,
\* with no B count computed, the random source unseeded, no species drawn and
\* the scene untouched.
C2_BoundaryFractionRaises ==
    paramsFile.mass_fraction_B \in {R(0), R(1)} =>
        /\ pc \in {"import", "main", "raised"}
        /\ num_cubes_B = None
        /\ seedCalls = 0
        /\ SpeciesDraws = << >>
        /\ meshLocations = {} /\ nActive = 0 /\ container = None

\* ------------------------------------------------------------------------ C3

\* C3: in grid placement the two counters sum to the number of slots processed
\* (species draws made) so far, each slot having added exactly one to exactly
\* one of them, and to num_cubes_x * num_cubes_y * num_cubes_z once the loop
\* has ended.
C3_CountsSumToSlots ==
    /\ n_generated_cubes_B + n_generated_cubed_A = Len(SpeciesDraws)
    /\ n_generated_cubes_B >= 0 /\ n_generated_cubed_A >= 0
    /\ pc \in AfterLoop =>
           n_generated_cubes_B + n_generated_cubed_A = NumCubesTotal(PARAMETERS)

\* The loop has ended on a grid of at least four slots with both species drawn.
C3_Witness ==
    /\ pc = "container"
    /\ NumCubesTotal(PARAMETERS) >= 4
    /\ n_generated_cubes_B >= 1
    /\ n_generated_cubed_A >= 1

\* ------------------------------------------------------------------------ C4

\* C4: the draws of a run come in groups of four, one species draw followed by
\* the three rotation draws of the same cell; the k-th group (from 0) belongs to
\* the cell with (x * num_cubes_y + y) * num_cubes_z + z = k, so no cell is drawn
\* for twice, and after the loop every cell has its group.
C4_GridDrawOrder ==
    LET draws == RunDraws
        nSpecies == (Len(draws) + 3) \div 4
    IN  /\ \A i \in 1 .. Len(draws) :
               LET k == (i - 1) \div 4
                   e == draws[i]
               IN  /\ e.kind = IF (i - 1) % 4 = 0 THEN "species" ELSE "rotation"
                   /\ InGrid(e.cell, PARAMETERS)
                   /\ CellIndex(e.cell, PARAMETERS) = k
        /\ Cardinality({draws[4 * k + 1].cell : k \in 0 .. nSpecies - 1}) = nSpecies
        /\ pc \in InLoop => nSpecies = CellIndex(<<x, y, z>>, PARAMETERS)
                                          + (IF pc = "decide" THEN 0 ELSE 1)
        /\ pc \in AfterLoop => Len(draws) = 4 * NumCubesTotal(PARAMETERS)

\* A finished run over a grid with more than one cell along every axis.
C4_Witness ==
    /\ pc = "done"
    /\ PARAMETERS.num_cubes_x >= 2
    /\ PARAMETERS.num_cubes_y >= 2
    /\ PARAMETERS.num_cubes_z >= 2
    /\ Len(SpeciesDraws) = NumCubesTotal(PARAMETERS)

\* ------------------------------------------------------------------------ C5

\* C5: no body exists before the prior meshes are cleared; the bake is
\* free_bake_all then bake_all, both run on a scene that holds all
\* num_cubes_x * num_cubes_y * num_cubes_z active bodies and the container; and
\* from the bake on the number of bodies stays what the bake saw.
C5_BakeSeesFinalScene ==
    /\ (meshLocations # {} \/ nActive > 0 \/ container # None) => priorMeshes = 0
    /\ cacheLog # << >> =>
           /\ Len(cacheLog) = 2
           /\ cacheLog[1].op = "free_bake_all" /\ cacheLog[2].op = "bake_all"
           /\ \A i \in 1 .. 2 :
                  /\ cacheLog[i].scene.bodies = NumCubesTotal(PARAMETERS)
                  /\ cacheLog[i].scene.container
           /\ container # None
           /\ container.rigid_body = "PASSIVE"
           /\ nActive = NumCubesTotal(PARAMETERS)
           /\ Cardinality(meshLocations) = NumCubesTotal(PARAMETERS)
    /\ pc \in (AfterLoop \ {"container", "frame_range", "bake"}) => cacheLog # << >>
    /\ pc \in {"import", "main", "seed", "normalize", "delete_meshes", "raised"}
           \cup InLoop \cup {"container", "frame_range", "bake"} => cacheLog = << >>

\* The bake has run over a scene of at least four bodies that held a mesh before.
C5_Witness ==
    /\ pc = "frame_set"
    /\ Len(cacheLog) = 2
    /\ nActive >= 4
    /\ rigidbody_world

\* ------------------------------------------------------------------------ C6

\* C6: once loaded, the parameters hold a concrete seed: the file's seed if it has
\* one, otherwise one value drawn once; random.seed is called at most once, with
\* that value, before any species draw; and the sidecar records that same value.
C6_OneSeedPerRun ==
    /\ pc # "import" =>
           /\ PARAMETERS.seed # None
           /\ paramsFile.seed # None =>
                  PARAMETERS.seed = paramsFile.seed /\ LoadDraws = << >>
           /\ paramsFile.seed = None =>
                  PARAMETERS.seed \in GeneratedSeeds /\ Len(LoadDraws) = 1
    /\ seedCalls <= 1
    /\ seedCalls = 1 => rngSeed = PARAMETERS.seed
    /\ SpeciesDraws # << >> => seedCalls = 1
    /\ \A i \in 1 .. Len(artifacts) :
           artifacts[i].kind = "json" =>
               /\ seedCalls = 1
               /\ artifacts[i].content.seed = rngSeed
               /\ artifacts[i].content.seed # None

\* A finished run whose file gave the seed 0: seeded with 0, and 0 in the sidecar.
C6_Witness ==
    /\ pc = "done"
    /\ paramsFile.seed = R(0)
    /\ Len(artifacts) = 3
    /\ artifacts[2].content.seed = R(0)
    /\ rngSeed = R(0)

\* ------------------------------------------------------------------------ C7

\* C7: the files are written in the order snapshot, sidecar, mesh export, each
\* after the bake and at the end frame; the snapshot still holds the container
\* and the mesh export does not; the container leaves the scene only after the
\* snapshot; and the host is quit only if quit_on_finish is set, after all three.
C7_ExportOrder ==
    /\ Len(artifacts) <= 3
    /\ \A i \in 1 .. Len(artifacts) :
           /\ artifacts[i].kind = <<"blender", "json", "stl">>[i]
           /\ artifacts[i].frame = EndFrame
           /\ artifacts[i].baked = 2
    /\ Len(artifacts) >= 1 => artifacts[1].content.container
    /\ Len(artifacts) >= 3 => ~artifacts[3].content.container
    /\ (container # None /\ ~containerInScene) => Len(artifacts) >= 1
    /\ hostQuit => PARAMETERS.quit_on_finish /\ Len(artifacts) = 3
    /\ pc = "done" => Len(artifacts) = 3

\* The host has been quit after the three files were written.
C7_Witness ==
    /\ pc = "done"
    /\ hostQuit
    /\ Len(artifacts) = 3
    /\ ~containerInScene

\* ------------------------------------------------------------------------ C8

ValidFraction(parameters) ==
    /\ RLt(R(0), parameters.mass_fraction_B)
    /\ RLt(parameters.mass_fraction_B, R(1))

\* C8: for valid parameters the vector main hands to decide_cube has two entries,
\* A then B, each >= 0, summing to 1, the B entry being num_cubes_B over the total;
\* and cum_sums is its running sum: non-decreasing, first entry the A entry, last
\* entry 1.
C8_ProbabilityVector ==
    (pc = "delete_meshes" /\ ValidFraction(PARAMETERS)) =>
        /\ Len(number_fractions) = 2 /\ Len(cum_sums) = 2
        /\ \A i \in 1 .. 2 : RLe(R(0), number_fractions[i])
        /\ RAdd(number_fractions[1], number_fractions[2]) = R(1)
        /\ number_fractions[2] = Norm(num_cubes_B, NumCubesTotal(PARAMETERS))
        /\ NonDecreasing(cum_sums)
        /\ cum_sums[1] = number_fractions[1]
        /\ cum_sums[2] = R(1)

\* A normalized vector with both species present and unequal particle masses.
C8_Witness ==
    /\ pc = "delete_meshes"
    /\ ValidFraction(PARAMETERS)
    /\ PARAMETERS.density_A # PARAMETERS.density_B
    /\ RLt(R(0), number_fractions[1])
    /\ RLt(number_fractions[1], number_fractions[2])
    /\ cum_sums[2] = R(1)

\* ------------------------------------------------------------------------ C9

\* The mass of one particle up to the factor 1/2 * sides * sin(2 pi / sides) that
\* both species share: density * radius^2 * thickness.
MassA(parameters) ==
    parameters.density_A * parameters.r_A * parameters.r_A * parameters.thickness_A
MassB(parameters) ==
    parameters.density_B * parameters.r_B * parameters.r_B * parameters.thickness_B

\* C9: for 0 < x_B < 1 and a total T >= 1, the B target is ceil(p_B * T) with
\* p_B = alpha / (1 + alpha) = x_B m_A / (x_B m_A + (1 - x_B) m_B), and so is at
\* least 1 and at most T; with equal densities and volumes, x_B = 1/2 and T = 10
\* it is exactly 5.
C9_CeilingTarget ==
    (pc \in {"seed", "normalize", "delete_meshes"} /\ ValidFraction(PARAMETERS)) =>
        LET T == NumCubesTotal(PARAMETERS)
            a == PARAMETERS.mass_fraction_B[1]
            b == PARAMETERS.mass_fraction_B[2]
            num == a * MassA(PARAMETERS)
            den == a * MassA(PARAMETERS) + (b - a) * MassB(PARAMETERS)
        IN  /\ num_cubes_B \in 1 .. T
            /\ (num_cubes_B - 1) * den < num * T
            /\ num * T <= num_cubes_B * den
            /\ ( /\ MassA(PARAMETERS) = MassB(PARAMETERS)
                 /\ PARAMETERS.mass_fraction_B = <<1, 2>>
                 /\ T = 10 ) => num_cubes_B = 5

\* The example of the claim: equal particles, x_B = 1/2, ten slots, five of B.
C9_Witness ==
    /\ pc = "seed"
    /\ PARAMETERS.density_A = PARAMETERS.density_B
    /\ PARAMETERS.r_A = PARAMETERS.r_B
    /\ PARAMETERS.thickness_A = PARAMETERS.thickness_B
    /\ PARAMETERS.mass_fraction_B = <<1, 2>>
    /\ NumCubesTotal(PARAMETERS) = 10
    /\ num_cubes_B = 5

\* ----------------------------------------------------------------------- C10

\* C10, as stated: once the container exists, every slot's location is inside
\* it: x and y within [-side/2, side/2], side being the side handed to
\* create_container_without_top_face, and z within [0, container height].
C10_SlotsInsideContainer ==
    container # None =>
        LET side == RMul(container.size, container.scale[1])
            height == RMul(container.size, container.scale[3])
            halfSide == RDiv(side, R(2))
            bottom == RSub(container.location[3], RDiv(height, R(2)))
        IN  /\ side = ContainerSide(PARAMETERS)
            /\ height = ContainerHeight(PARAMETERS)
            /\ bottom = R(0)
            /\ \A loc \in meshLocations :
                   /\ RLe(RSub(R(0), halfSide), loc[1]) /\ RLe(loc[1], halfSide)
                   /\ RLe(RSub(R(0), halfSide), loc[2]) /\ RLe(loc[2], halfSide)
                   /\ RLe(bottom, loc[3]) /\ RLe(loc[3], RAdd(bottom, height))

====
